---- MODULE Spec2Model ----
(***************************************************************************)
(* India Union Budget Explorer (src/app.py): the normalisation,           *)
(* aggregation and validation pipeline of the Streamlit script.            *)
(*                                                                         *)
(* Text is modelled as tuples: a ministry label is a tuple of words (the   *)
(* words of the label, separated by single spaces), a numeric cell and a   *)
(* year label are tuples of characters.  A float is a tagged record:       *)
(* Num(v), NaN or Inf.                                                     *)
(***************************************************************************)
EXTENDS Integers, Sequences, FiniteSets, TLC

VARIABLES
    csv,        \* the rows of budget.csv (static for the process)
    cache,      \* st.cache_data's store for load_data: <<>> or <<frame>>
    reads,      \* how many times pd.read_csv ran
    loaded,     \* <<>> or <<the frame the latest load_data() call returned>>
    held,       \* <<>> or <<that frame as its caller holds it now>>
    firstLoad,  \* history: <<>> or <<the frame the first load_data() returned>>
    mutation,   \* history: <<>> or <<the latest frame a caller's change left>>
    df,         \* the module-level df after lines 63-70
    sliders,    \* widget state of the What If sliders: touched ministry -> value
    out,        \* what the selected page computed in the latest script run
    rawLabel,   \* canonicalisation development: the raw label
    canonOnce,  \* ... canonicalize(rawLabel), as <<>> or <<label>>
    canonTwice  \* ... canonicalize(canonicalize(rawLabel)), as <<>> or <<label>>

vars == <<csv, cache, reads, loaded, held, firstLoad, mutation, df, sliders, out,
          rawLabel, canonOnce, canonTwice>>

pipelineVars ==
    <<csv, cache, reads, loaded, held, firstLoad, mutation, df, sliders, out>>
canonVars == <<rawLabel, canonOnce, canonTwice>>

(***************************************************************************)
(* Bounds of the model.                                                    *)
(***************************************************************************)
MaxLabelLen == 5      \* words in a raw label of the canonicalisation development
MaxRowsLoad == 2      \* rows of budget.csv in the load development
MaxRowsShare == 3     \* rows of budget.csv in the share development
MaxRowsGrowth == 3    \* rows of budget.csv in the growth development
MaxTouched == 1       \* What If sliders the user has moved

(***************************************************************************)
(* Floats.                                                                 *)
(***************************************************************************)
Num(v) == [k |-> "num", v |-> v]
NaN == [k |-> "nan", v |-> 0]
Inf == [k |-> "inf", v |-> 0]
IsNum(x) == x.k = "num"

Min(a, b) == IF a <= b THEN a ELSE b
Abs(x) == IF x < 0 THEN -x ELSE x

RECURSIVE Pow(_, _)
Pow(b, e) == IF e = 0 THEN 1 ELSE b * Pow(b, e - 1)

(***************************************************************************)
(* Name Canonicalizer: lines 42-50.                                        *)
(***************************************************************************)
AgriName == <<"Agriculture", "&", "Farmers'", "Welfare">>
DefenceName == <<"Defence">>
FinanceName == <<"Finance">>
HomeName == <<"Home", "Affairs">>
HealthName == <<"Health", "&", "Family", "Welfare">>

\* line 64
focus_ministries == <<DefenceName, FinanceName, HomeName, AgriName, HealthName>>
FocusSet == {focus_ministries[i] : i \in 1..Len(focus_ministries)}

\* the dict handed to Series.replace, lines 42-49: exact-match key -> value
AliasTable ==
    { << <<"MINISTRY", "OF", "AGRICULTURE">>, AgriName >>,
      << <<"MINISTRY", "OF", "AGRICULTURE", "AND", "FARMERS", "WELFARE">>, AgriName >>,
      << <<"MINISTRY", "OF", "AGRICULTURE", "AND", "FARMERS'", "WELFARE">>, AgriName >>,
      << <<"MINISTRY", "OF", "DEFENCE">>, DefenceName >>,
      << <<"MINISTRY", "OF", "FINANCE">>, FinanceName >>,
      << <<"MINISTRY", "OF", "HOME", "AFFAIRS">>, HomeName >>,
      << <<"MINISTRY", "OF", "HEALTH", "AND", "FAMILY", "WELFARE">>, HealthName >> }
AliasKeys == {e[1] : e \in AliasTable}

\* Series.replace(dict): the whole value is replaced when it equals a key
ReplaceAlias(s) ==
    IF s \in AliasKeys THEN (CHOOSE e \in AliasTable : e[1] = s)[2] ELSE s

\* the literal "MINISTRY OF " of line 50 starts at word i of s: the two words,
\* and a following word for the literal's trailing space
LiteralAt(s, i) ==
    /\ i + 2 <= Len(s)
    /\ s[i] = "MINISTRY"
    /\ s[i + 1] = "OF"

ContainsLiteral(s) == \E i \in 1..Len(s) : LiteralAt(s, i)

\* a plausible slip: the prefix is cut off without looking whether it is there
CutPrefixUnchecked(s, i) ==
    IF i > Len(s) THEN <<>> ELSE SubSeq(s, Min(i + 2, Len(s) + 1), Len(s))

\* .str.replace("MINISTRY OF ", "", regex=False), line 50: one left-to-right
\* pass that drops every non-overlapping occurrence, from word i on
RECURSIVE StrReplaceFrom(_, _)
StrReplaceFrom(s, i) ==
    IF i > Len(s) THEN <<>>
    ELSE IF LiteralAt(s, i) THEN StrReplaceFrom(s, i + 2)
    ELSE <<s[i]>> \o StrReplaceFrom(s, i + 1)

canonicalize(s) == StrReplaceFrom(ReplaceAlias(s), 1)

(***************************************************************************)
(* Record Normalizer: lines 52-59.                                         *)
(***************************************************************************)
DigitVal ==
    [c \in {"0", "1", "2", "3", "4", "5", "6", "7", "8", "9"} |->
        CASE c = "0" -> 0 [] c = "1" -> 1 [] c = "2" -> 2 [] c = "3" -> 3
          [] c = "4" -> 4 [] c = "5" -> 5 [] c = "6" -> 6 [] c = "7" -> 7
          [] c = "8" -> 8 [] c = "9" -> 9]

NotComma(c) == c # ","

\* a plausible slip: the separators are left in the text
KeepCommas(cell) == cell

\* .astype(str).str.replace(',', ''), line 56
StripCommas(cell) == SelectSeq(cell, NotComma)

RECURSIVE DecimalValue(_)
DecimalValue(digits) ==
    IF digits = <<>> THEN 0
    ELSE 10 * DecimalValue(SubSeq(digits, 1, Len(digits) - 1))
           + DigitVal[digits[Len(digits)]]

\* pd.to_numeric(..., errors='coerce'), line 56, on the non-negative integer
\* texts and the non-numeric texts of the model: what does not parse is NaN
to_numeric(text) ==
    IF text # <<>> /\ \A i \in 1..Len(text) : text[i] \in DOMAIN DigitVal
    THEN Num(DecimalValue(text))
    ELSE NaN

\* a plausible slip: the fallback order is reversed
FillnaReversed(a, b) == IF IsNum(b) THEN b ELSE a

\* Series.fillna(other), line 58
fillna(a, b) == IF IsNum(a) THEN a ELSE b

\* .str[:9], line 59
Year9(text) == SubSeq(text, 1, Min(9, Len(text)))

\* one row of budget.csv through lines 42-59
normalize(raw) ==
    LET plan == to_numeric(StripCommas(raw.Plan))
        combined == to_numeric(StripCommas(raw.Combined))
    IN  [Ministry |-> canonicalize(raw.Ministry),
         Year |-> Year9(raw.Year),
         Plan |-> plan,
         Combined |-> combined,
         Total |-> fillna(combined, plan)]

\* the body of load_data, lines 39-61
load_data(rows) == [i \in 1..Len(rows) |-> normalize(rows[i])]

(***************************************************************************)
(* Module-level derivation: lines 63-70.                                   *)
(***************************************************************************)
IsFocus(r) == r.Ministry \in FocusSet

\* a plausible slip: the focus filter is left out
NoFilter(frame) == frame

\* df[df["Ministry"].isin(focus_ministries)], line 65
FocusFilter(frame) == SelectSeq(frame, IsFocus)

YearsOf(frame) == {frame[i].Year : i \in 1..Len(frame)}

\* a plausible slip: the sum is taken over the whole frame, not per Year
RECURSIVE SumAllYears(_, _, _)
SumAllYears(frame, y, n) ==
    IF n = 0 THEN 0
    ELSE SumAllYears(frame, y, n - 1)
           + (IF IsNum(frame[n].Total) THEN frame[n].Total.v ELSE 0)

\* groupby("Year")["Total"].sum() for the group y, line 68: NaN is skipped,
\* over the first n rows of the frame
RECURSIVE SumTotal(_, _, _)
SumTotal(frame, y, n) ==
    IF n = 0 THEN 0
    ELSE SumTotal(frame, y, n - 1)
           + (IF frame[n].Year = y /\ IsNum(frame[n].Total)
              THEN frame[n].Total.v ELSE 0)

\* line 68
total_by_year(frame) == [y \in YearsOf(frame) |-> Num(SumTotal(frame, y, Len(frame)))]

\* The precision of the modelled float quotient: a ratio is kept to nine
\* decimal places, truncated, so a Share is a whole number of 1e-7 percent.
RatioOne == 1000 * 1000 * 1000
PerPercent == RatioOne \div 100

RECURSIVE FracDigits(_, _, _)
FracDigits(rem, den, unit) ==
    IF unit = 0 THEN 0
    ELSE ((rem * 10) \div den) * unit
           + FracDigits((rem * 10) % den, den, unit \div 10)

\* (a / b) * 100 on floats, line 70
Percent(a, b) ==
    IF ~IsNum(a) \/ ~IsNum(b) THEN NaN
    ELSE IF b.v = 0 THEN (IF a.v = 0 THEN NaN ELSE Inf)
    ELSE Num((a.v \div b.v) * RatioOne
               + FracDigits(a.v % b.v, b.v, RatioOne \div 10))

\* lines 68-70 on the filtered frame: the merge keeps the left rows' order
WithShares(frame) ==
    LET tby == total_by_year(frame)
    IN  [i \in 1..Len(frame) |->
            [Ministry |-> frame[i].Ministry,
             Year |-> frame[i].Year,
             Plan |-> frame[i].Plan,
             Combined |-> frame[i].Combined,
             Total |-> frame[i].Total,
             Total_total |-> tby[frame[i].Year],
             Share |-> Percent(frame[i].Total, tby[frame[i].Year])]]

\* lines 65-70
derive(frame) == WithShares(FocusFilter(frame))

\* a plausible slip: st.cache_resource, which hands every caller the cached
\* object itself
ReturnsCachedObject == FALSE

\* st.cache_data, line 37: every caller gets a copy of the cached value
ReturnsCopy == TRUE

\* load_data() under st.cache_data, lines 37-38 and 63: the body runs on a
\* miss only
CachedLoad == IF cache = <<>> THEN load_data(csv) ELSE cache[1]

\* lines 63-70 of one script run: load_data() through the cache, then the
\* derivation of the module-level df
RunScript ==
    /\ cache' = <<CachedLoad>>
    /\ reads' = IF cache = <<>> THEN reads + 1 ELSE reads
    /\ loaded' = <<CachedLoad>>
    /\ held' = <<CachedLoad>>
    /\ firstLoad' = IF firstLoad = <<>> THEN <<CachedLoad>> ELSE firstLoad
    /\ df' = derive(CachedLoad)
    /\ UNCHANGED <<csv, mutation, canonVars>>

(***************************************************************************)
(* Periods: the "YYYY-YYYY" text of a Year, compared as Python compares    *)
(* strings.                                                                *)
(***************************************************************************)
Y1415 == <<"2", "0", "1", "4", "-", "2", "0", "1", "5">>
Y2223 == <<"2", "0", "2", "2", "-", "2", "0", "2", "3">>
Y2324 == <<"2", "0", "2", "3", "-", "2", "0", "2", "4">>
Y2425 == <<"2", "0", "2", "4", "-", "2", "0", "2", "5">>
BudgetEstimate == <<" ", "(", "B", "E", ")">>

CharRank(c) ==
    CASE c = " " -> 0 [] c = "(" -> 1 [] c = ")" -> 2 [] c = "-" -> 3
      [] c \in DOMAIN DigitVal -> 4 + DigitVal[c]
      [] OTHER -> 14

RECURSIVE LexLess(_, _, _)
LexLess(a, b, i) ==
    IF i > Len(b) THEN FALSE
    ELSE IF i > Len(a) THEN TRUE
    ELSE IF a[i] = b[i] THEN LexLess(a, b, i + 1)
    ELSE CharRank(a[i]) < CharRank(b[i])

YearLess(a, b) == LexLess(a, b, 1)

\* the Year columns of a pivot, in the order pivot puts them: ascending
RECURSIVE SortedYears(_)
SortedYears(S) ==
    IF S = {} THEN <<>>
    ELSE LET least == CHOOSE y \in S : \A z \in S \ {y} : YearLess(y, z)
         IN  <<least>> \o SortedYears(S \ {least})

RowsOf(d, m) == LET Is(r) == r.Ministry = m IN SelectSeq(d, Is)
RowsAt(d, y) == LET Is(r) == r.Year = y IN SelectSeq(d, Is)
RowsOfAt(d, m, y) == LET Is(r) == r.Ministry = m /\ r.Year = y IN SelectSeq(d, Is)

(***************************************************************************)
(* Overview: lines 103-140.  Each .iloc[0] of lines 109-112 raises         *)
(* IndexError on an empty selection.                                       *)
(***************************************************************************)
OverviewPage(d) ==
    [page |-> "Overview",
     status |-> IF /\ RowsOfAt(d, DefenceName, Y2425) # <<>>
                   /\ RowsOfAt(d, FinanceName, Y2425) # <<>>
                   /\ RowsOfAt(d, AgriName, Y1415) # <<>>
                   /\ RowsOfAt(d, AgriName, Y2425) # <<>>
                THEN "ok" ELSE "IndexError"]

(***************************************************************************)
(* Deep Dive: lines 142-164.  A displayed CAGR is kept as the operands of  *)
(* ((last / first) ** (1/years) - 1) * 100.                                *)
(***************************************************************************)
Cagr(first, last, years) == [k |-> "cagr", first |-> first, last |-> last, years |-> years]

\* lines 160-163 on floats: first and last are numpy floats (a division by
\* zero is inf or nan), years is a Python int (1/0 raises)
DeepDivePage(d, ministry) ==
    LET data == RowsOf(d, ministry)
        first == data[1].Total
        last == data[Len(data)].Total
        years == Len(data) - 1
    IN  IF data = <<>>
        THEN [page |-> "Deep Dive", ministry |-> ministry, status |-> "IndexError"]
        ELSE IF years = 0
        THEN [page |-> "Deep Dive", ministry |-> ministry, status |-> "ZeroDivisionError"]
        ELSE [page |-> "Deep Dive", ministry |-> ministry, status |-> "ok",
              cagr |-> IF ~IsNum(first) \/ ~IsNum(last) THEN NaN
                       ELSE IF first.v = 0 THEN (IF last.v = 0 THEN NaN ELSE Inf)
                       ELSE Cagr(first.v, last.v, years)]

(***************************************************************************)
(* Comparisons: lines 166-187.  A growth is kept as the operands of        *)
(* (cur / prev - 1) * 100.                                                 *)
(***************************************************************************)
Pct(cur, prev) == [k |-> "pct", cur |-> cur, prev |-> prev]

\* data / shifted - 1 on floats
PctOf(cur, prev) ==
    IF ~IsNum(cur) \/ ~IsNum(prev) THEN NaN
    ELSE IF prev.v = 0 THEN (IF cur.v = 0 THEN NaN ELSE Inf)
    ELSE Pct(cur.v, prev.v)

\* df.pivot(index="Ministry", columns="Year", values="Total"), line 181: the
\* cell of an absent (Ministry, Year) pair is NaN
PivotCell(d, m, y) ==
    IF RowsOfAt(d, m, y) = <<>> THEN NaN ELSE RowsOfAt(d, m, y)[1].Total

PivotHasDuplicates(d) ==
    \E i, j \in 1..Len(d) :
        i # j /\ d[i].Ministry = d[j].Ministry /\ d[i].Year = d[j].Year

\* fillna(method=fill) along one pivot row before the division: "pad" carries
\* the last valid value forward, "none" leaves the row as it is
RECURSIVE Filled(_, _, _, _, _)
Filled(d, m, ys, j, fill) ==
    IF j = 0 THEN NaN
    ELSE IF IsNum(PivotCell(d, m, ys[j])) \/ fill = "none"
    THEN PivotCell(d, m, ys[j])
    ELSE Filled(d, m, ys, j - 1, fill)

\* growth.pct_change(axis=1) * 100, line 182
PctChange(d, fill) ==
    LET ys == SortedYears(YearsOf(d))
        ms == {d[i].Ministry : i \in 1..Len(d)}
    IN  [m \in ms |->
            [y \in YearsOf(d) |->
                LET j == CHOOSE n \in 1..Len(ys) : ys[n] = y
                IN  IF j = 1 THEN NaN
                    ELSE PctOf(Filled(d, m, ys, j, fill),
                               Filled(d, m, ys, j - 1, fill))]]

\* pct_change's default fill_method is "pad" up to pandas 2 and None from
\* pandas 3 on; the script pins no version
FillMethods == {"pad", "none"}

Metrics == {"Absolute Amount", "Growth Rate", "% Share"}

ComparisonsPage(d, metric, fill) ==
    IF metric # "Growth Rate"
    THEN [page |-> "Comparisons", metric |-> metric, status |-> "ok"]
    ELSE IF PivotHasDuplicates(d)
    THEN [page |-> "Comparisons", metric |-> metric, status |-> "ValueError"]
    ELSE [page |-> "Comparisons", metric |-> metric,
          status |-> IF Y2425 \in YearsOf(d) THEN "ok" ELSE "KeyError",
          growth_pct |-> PctChange(d, fill)]

(***************************************************************************)
(* What If?: lines 189-208.  Amounts stay in crore: a slider value of v    *)
(* Lakh Cr is kept as v * 1e7.                                             *)
(***************************************************************************)
LakhCrore == 10000000
Tolerance == 5
\* the slider's step 0.5, line 199
SliderStep == LakhCrore \div 2

\* a plausible slip: the comparison is not strict
WithinToleranceInclusive(allocated, total) == Abs(allocated - total) <= Tolerance * LakhCrore

\* abs(total_allocated - total_2024) < 5, line 204
WithinTolerance(allocated, total) == Abs(allocated - total) < Tolerance * LakhCrore

SliderGrid(total) == {k * SliderStep : k \in 0..(total \div SliderStep)}

RECURSIVE SumAllocations(_, _)
SumAllocations(alloc, n) ==
    IF n = 0 THEN 0 ELSE SumAllocations(alloc, n - 1) + alloc[focus_ministries[n]]

WhatIfPage(d, sl) ==
    LET latest == RowsAt(d, Y2425)
        total == latest[1].Total_total.v
        current == [m \in FocusSet |-> RowsOfAt(d, m, Y2425)[1].Total]
        allocations == [m \in FocusSet |->
                           IF m \in DOMAIN sl THEN sl[m] ELSE current[m].v]
        allocated == SumAllocations(allocations, Len(focus_ministries))
    IN  IF latest = <<>> \/ \E m \in FocusSet : RowsOfAt(d, m, Y2425) = <<>>
        THEN [page |-> "What If?", status |-> "IndexError"]
        ELSE IF total = 0 \/ \E m \in FocusSet : ~IsNum(current[m])
        THEN [page |-> "What If?", status |-> "StreamlitAPIException"]
        ELSE [page |-> "What If?", status |-> "ok",
              total |-> total,
              allocations |-> allocations,
              allocated |-> allocated,
              remaining |-> total - allocated,
              balanced |-> WithinTolerance(allocated, total)]

(***************************************************************************)
(* The script runs: one per interaction, the whole script each time.  The  *)
(* first run of a session shows Overview (default_index=0, line 91).       *)
(***************************************************************************)
Started == out.page # "none"

Overview ==
    /\ RunScript
    /\ out' = OverviewPage(df')
    /\ UNCHANGED sliders

DeepDive(ministry) ==
    /\ Started
    /\ RunScript
    /\ out' = DeepDivePage(df', ministry)
    /\ UNCHANGED sliders

Comparisons(metric) ==
    /\ Started
    /\ RunScript
    /\ \E fill \in FillMethods : out' = ComparisonsPage(df', metric, fill)
    /\ UNCHANGED sliders

WhatIf ==
    /\ Started
    /\ RunScript
    /\ out' = WhatIfPage(df', sliders)
    /\ UNCHANGED sliders

\* the user drags the slider of `ministry` to a value of its grid
MoveSlider(ministry) ==
    /\ out.page = "What If?" /\ out.status = "ok"
    /\ ministry \in DOMAIN sliders \/ Cardinality(DOMAIN sliders) < MaxTouched
    /\ RunScript
    /\ \E value \in SliderGrid(out.total) :
          /\ sliders' = [m \in DOMAIN sliders \cup {ministry} |->
                            IF m = ministry THEN value ELSE sliders[m]]
          /\ out' = WhatIfPage(df', sliders')

\* A caller changes, in place, the frame load_data() handed it: it drops the
\* first row, or blanks every Total.
Mutations == {"drop first row", "blank Total"}

Mutated(frame, how) ==
    IF how = "drop first row"
    THEN SubSeq(frame, 2, Len(frame))
    ELSE [i \in 1..Len(frame) |-> [frame[i] EXCEPT !.Total = NaN]]

MutateReturned(how) ==
    /\ held # <<>>
    /\ held' = <<Mutated(held[1], how)>>
    /\ mutation' = held'
    /\ cache' = IF ReturnsCopy THEN cache ELSE held'
    /\ UNCHANGED <<csv, reads, loaded, firstLoad, df, sliders, out, canonVars>>

NoCanon ==
    /\ rawLabel = <<>>
    /\ canonOnce = <<>>
    /\ canonTwice = <<>>

\* the process before its first script run
NotRun ==
    /\ cache = <<>>
    /\ reads = 0
    /\ loaded = <<>>
    /\ held = <<>>
    /\ firstLoad = <<>>
    /\ mutation = <<>>
    /\ df = <<>>
    /\ sliders = <<>>
    /\ out = [page |-> "none"]

\* no script run yet, budget.csv holding up to maxRows rows drawn from rows
InitPipeline(rows, maxRows) ==
    /\ csv \in UNION {[1..n -> rows] : n \in 0..maxRows}
    /\ NotRun
    /\ NoCanon

Text(ministry, year, plan, combined) ==
    [Ministry |-> ministry, Year |-> year, Plan |-> plan, Combined |-> combined]

(***************************************************************************)
(* Helpers of the claims: sums over index sets, and the numbers the cell   *)
(* texts of the developments stand for.                                    *)
(***************************************************************************)
RECURSIVE SumOver(_, _)
SumOver(f, S) ==
    IF S = {} THEN 0
    ELSE LET x == CHOOSE x \in S : TRUE IN f[x] + SumOver(f, S \ {x})

NotAvailable == <<"N", "/", "A">>
Blank == <<>>
Text0 == <<"0">>
Text1 == <<"1">>
Text2 == <<"2">>
Text5 == <<"5">>
Text10 == <<"1", ",", "0">>
Text300 == <<"3", ",", "0", "0">>
Text500 == <<"5", "0", "0">>
Text1234567 == <<"1", "2", ",", "3", "4", ",", "5", "6", "7">>
Text5000000 == <<"5", "0", ",", "0", "0", ",", "0", "0", "0">>
Text55000000 == <<"5", ",", "5", "0", ",", "0", "0", ",", "0", "0", "0">>
Text60000000 == <<"6", ",", "0", "0", ",", "0", "0", ",", "0", "0", "0">>

\* what each cell text is to load as
Reading ==
    { <<NotAvailable, NaN>>, <<Blank, NaN>>, <<Text0, Num(0)>>, <<Text1, Num(1)>>,
      <<Text2, Num(2)>>, <<Text5, Num(5)>>, <<Text10, Num(10)>>,
      <<Text300, Num(300)>>, <<Text500, Num(500)>>,
      <<Text1234567, Num(1234567)>>, <<Text5000000, Num(5000000)>>,
      <<Text55000000, Num(55000000)>>, <<Text60000000, Num(60000000)>> }

ReadingOf(text) == (CHOOSE e \in Reading : e[1] = text)[2]

RawDefence == <<"MINISTRY", "OF", "DEFENCE">>
RawFinance == <<"MINISTRY", "OF", "FINANCE">>
RawHome == <<"MINISTRY", "OF", "HOME", "AFFAIRS">>
RawAgri == <<"MINISTRY", "OF", "AGRICULTURE", "AND", "FARMERS", "WELFARE">>
RawHealth == <<"MINISTRY", "OF", "HEALTH", "AND", "FAMILY", "WELFARE">>
RawRailways == <<"MINISTRY", "OF", "RAILWAYS">>

\* the records of frame that are focus records of period y, by index
FocusAt(frame, y) ==
    {j \in 1..Len(frame) : frame[j].Ministry \in FocusSet /\ frame[j].Year = y}

\* the sum of the Totals present among the records js of frame
TotalOver(frame, js) ==
    SumOver([j \in 1..Len(frame) |->
                IF IsNum(frame[j].Total) THEN frame[j].Total.v ELSE 0],
            {j \in js : IsNum(frame[j].Total)})

(***************************************************************************)
(* The load development: budget.csv with malformed, separated and missing  *)
(* cells; script runs, and callers changing the frame they were handed.    *)
(***************************************************************************)
LoadRows ==
    {Text(m, Y2425 \o BudgetEstimate, p, c) :
        m \in {RawDefence, RawRailways},
        p \in {Text300, NotAvailable, Text1234567},
        c \in {Text500, NotAvailable, Blank}}

InitLoad == InitPipeline(LoadRows, MaxRowsLoad)

NextLoad ==
    \/ Overview
    \/ \E how \in Mutations : MutateReturned(how)

SpecLoad == InitLoad /\ [][NextLoad]_vars

\* C4: every loaded record's Total is its TotalCombined when that is present,
\* else its TotalPlan (missing when both are), and the period total attached
\* to the focus records is the sum over the records whose Total is present:
\* a record with both missing adds nothing to it.
C4_TotalDerivation ==
    loaded # <<>> =>
        /\ \A i \in 1..Len(csv) :
              LET combined == ReadingOf(csv[i].Combined)
                  plan == ReadingOf(csv[i].Plan)
                  total == loaded[1][i].Total
              IN  /\ IsNum(combined) => total = combined
                  /\ ~IsNum(combined) => total = plan
                  /\ (~IsNum(combined) /\ ~IsNum(plan)) => total = NaN
        /\ \A i \in 1..Len(df) :
              df[i].Total_total =
                  Num(TotalOver(loaded[1],
                                {j \in FocusAt(loaded[1], df[i].Year) :
                                    IsNum(ReadingOf(csv[j].Combined))
                                      \/ IsNum(ReadingOf(csv[j].Plan))}))

\* a record fell back to its plan total beside one with both totals missing
C4_Witness ==
    /\ loaded # <<>>
    /\ \E i, j \in 1..Len(df) :
          /\ df[i].Combined = NaN /\ df[i].Plan = Num(300) /\ df[i].Total = Num(300)
          /\ df[j].Combined = NaN /\ df[j].Plan = NaN /\ df[j].Total = NaN
          /\ df[j].Total_total = Num(300)

\* C6: the load keeps every row, and each numeric cell loads as the number its
\* text spells once the commas are removed, or as missing when that text is
\* not a number; no other cell of the row or of another row changes with it.
C6_CoercionIsLocal ==
    loaded # <<>> =>
        /\ Len(loaded[1]) = Len(csv)
        /\ \A i \in 1..Len(csv) :
              /\ loaded[1][i].Plan = ReadingOf(csv[i].Plan)
              /\ loaded[1][i].Combined = ReadingOf(csv[i].Combined)

\* a row with a malformed cell loaded beside a row read in full
C6_Witness ==
    /\ loaded # <<>>
    /\ Len(csv) = 2
    /\ csv[1].Plan = NotAvailable /\ csv[1].Combined = Text500
    /\ loaded[1][1].Plan = NaN /\ loaded[1][1].Combined = Num(500)
    /\ csv[2].Plan = Text1234567
    /\ loaded[1][2].Plan = Num(1234567)

\* C8: whatever callers did to the frames they were handed, every load_data()
\* call returns the frame the first call returned, and budget.csv was read
\* and normalised once.
C8_LoadIsStable ==
    loaded # <<>> =>
        /\ loaded = firstLoad
        /\ cache = firstLoad
        /\ reads = 1

\* a caller changed its frame, and a later script run loaded again
C8_Witness ==
    /\ mutation # <<>>
    /\ mutation # firstLoad
    /\ held = loaded
    /\ loaded = firstLoad
    /\ reads = 1

(***************************************************************************)
(* The share development: focus and non-focus records over two periods,    *)
(* with present, zero-free and missing totals.                             *)
(***************************************************************************)
ShareRows ==
    {Text(m, y, NotAvailable, c) :
        m \in {RawDefence, RawFinance, RawRailways},
        y \in {Y2324, Y2425 \o BudgetEstimate},
        c \in {NotAvailable, Text1, Text2}}

InitShare == InitPipeline(ShareRows, MaxRowsShare)

NextShare ==
    \/ Overview
    \/ Comparisons("% Share")

SpecShare == InitShare /\ [][NextShare]_vars

\* 1e-6 percent, in the unit of a Share
ShareTolerance == PerPercent \div 1000000

\* the sum of the Shares of period y that are numbers, as Series.sum() takes it
ShareSum(y) ==
    SumOver([i \in 1..Len(df) |-> IF IsNum(df[i].Share) THEN df[i].Share.v ELSE 0],
            {i \in 1..Len(df) : df[i].Year = y /\ IsNum(df[i].Share)})

SharesClose(y) == Abs(ShareSum(y) - 100 * PerPercent) <= ShareTolerance

PeriodTotalOf(y) == df[CHOOSE i \in 1..Len(df) : df[i].Year = y].Total_total

\* C2 as claimed: in every period of the focus-filtered dataset the Shares sum
\* to 100 within 1e-6.
C2_SharesSumTo100 ==
    \A y \in YearsOf(df) : SharesClose(y)

\* C2 amended: in every period of the focus-filtered dataset whose period
\* total is not zero the Shares sum to 100 within 1e-6.
C2_SharesSumTo100WhenTotalNonZero ==
    \A y \in YearsOf(df) : PeriodTotalOf(y) # Num(0) => SharesClose(y)

\* a period of three records, one of them without a Total, whose Shares are
\* one third and two thirds
C2_Witness ==
    \E i, j, k \in 1..Len(df) :
        /\ df[i].Year = df[j].Year /\ df[j].Year = df[k].Year
        /\ df[i].Total = Num(1) /\ df[j].Total = Num(2) /\ df[k].Total = NaN
        /\ df[i].Total_total = Num(3)
        /\ df[i].Share = Num(333333333) /\ df[j].Share = Num(666666666)

\* C3: the derived dataset holds exactly the focus records, and the period
\* total attached to each is the sum of Total over the focus records of its
\* own period: no record of another category or period adds to it.
C3_PeriodTotalOverFocus ==
    loaded # <<>> =>
        /\ \A i \in 1..Len(df) : df[i].Ministry \in FocusSet
        /\ Len(df) = Cardinality({j \in 1..Len(loaded[1]) :
                                     loaded[1][j].Ministry \in FocusSet})
        /\ \A i \in 1..Len(df) :
              df[i].Total_total =
                  Num(TotalOver(loaded[1], FocusAt(loaded[1], df[i].Year)))

\* a focus record beside a non-focus record of its period and a focus record
\* of another period, each with a Total
C3_Witness ==
    /\ loaded # <<>>
    /\ Len(df) = 2
    /\ df[1].Year # df[2].Year
    /\ df[1].Total = Num(1) /\ df[1].Total_total = Num(1)
    /\ df[2].Total = Num(2) /\ df[2].Total_total = Num(2)
    /\ \E j \in 1..Len(loaded[1]) :
          /\ loaded[1][j].Ministry = <<"RAILWAYS">>
          /\ loaded[1][j].Year = df[1].Year
          /\ loaded[1][j].Total = Num(2)

(***************************************************************************)
(* The growth development: two categories over three periods, rows in any  *)
(* order, with gaps, zeros and missing totals.                             *)
(***************************************************************************)
GrowthRows ==
    {Text(m, y, NotAvailable, c) :
        m \in {RawDefence, RawFinance},
        y \in {Y2223, Y2324, Y2425},
        c \in {NotAvailable, Text0, Text5, Text10}}

InitGrowth == InitPipeline(GrowthRows, MaxRowsGrowth)

NextGrowth ==
    \/ Overview
    \/ \E ministry \in FocusSet : DeepDive(ministry)
    \/ \E metric \in Metrics : Comparisons(metric)

SpecGrowth == InitGrowth /\ [][NextGrowth]_vars

\* C5: a Deep Dive on a category with a single record, or whose first Total
\* is zero or missing, ends in an explicit failure: no growth rate, and no
\* nan or inf in its place, is displayed.  (Stated for datasets with one
\* record per category and period.)
C5_UndefinedGrowthIsExplicit ==
    (out.page = "Deep Dive" /\ RowsOf(df, out.ministry) # <<>>
        /\ ~PivotHasDuplicates(df)) =>
        LET data == RowsOf(df, out.ministry)
        IN  (Len(data) = 1 \/ data[1].Total \in {NaN, Num(0)}) =>
                out.status # "ok"

\* the periods of category m in df, and its Totals at period y
PeriodsOf(m) == {df[i].Year : i \in {j \in 1..Len(df) : df[j].Ministry = m}}
TotalsAt(m, y) ==
    {df[i].Total : i \in {j \in 1..Len(df) : df[j].Ministry = m /\ df[j].Year = y}}

\* the place of period y in the ordered period sequence of df
Ordinal(y) == Cardinality({z \in YearsOf(df) : YearLess(z, y)})

FirstPeriod(m) == CHOOSE y \in PeriodsOf(m) : \A z \in PeriodsOf(m) \ {y} : YearLess(y, z)
LastPeriod(m) == CHOOSE y \in PeriodsOf(m) : \A z \in PeriodsOf(m) \ {y} : YearLess(z, y)

\* (l1/f1)^(1/n1) = (l2/f2)^(1/n2), for positive first Totals and spans
SameCagr(a, b) ==
    Pow(a.last, b.years) * Pow(b.first, a.years)
        = Pow(b.last, a.years) * Pow(a.first, b.years)

\* C9: a displayed CAGR is the one of the Totals at the category's
\* chronologically first and last periods over the ordinal distance between
\* them, whatever the order and the number of the category's rows.  (Stated
\* for datasets with one record per category and period, and a category
\* whose Totals are all present and positive.)
C9_CagrIsChronological ==
    (out.page = "Deep Dive" /\ out.status = "ok" /\ out.cagr.k = "cagr"
        /\ ~PivotHasDuplicates(df)
        /\ \A i \in 1..Len(df) :
              df[i].Ministry = out.ministry => IsNum(df[i].Total) /\ df[i].Total.v > 0) =>
        LET m == out.ministry
            n == Ordinal(LastPeriod(m)) - Ordinal(FirstPeriod(m))
        IN  \E f \in TotalsAt(m, FirstPeriod(m)), l \in TotalsAt(m, LastPeriod(m)) :
                /\ IsNum(f) /\ f.v > 0 /\ IsNum(l) /\ n > 0
                /\ SameCagr(out.cagr, Cagr(f.v, l.v, n))

\* (c1/p1 - 1) = (c2/p2 - 1), for non-zero bases
SamePct(a, b) == a.cur * b.prev = b.cur * a.prev

\* C10: every growth of the Comparisons table is taken against the period
\* just before it in the ordered period sequence, and is undefined when that
\* period's Total, or the period's own, is missing, and in the first period.
C10_GrowthAgainstPredecessor ==
    (out.page = "Comparisons" /\ out.metric = "Growth Rate" /\ out.status = "ok") =>
        \A m \in DOMAIN out.growth_pct : \A y \in YearsOf(df) :
            LET g == out.growth_pct[m][y]
                preds == {z \in YearsOf(df) : YearLess(z, y)}
                pred == CHOOSE z \in preds : \A w \in preds \ {z} : YearLess(w, z)
                cur == PivotCell(df, m, y)
                base == PivotCell(df, m, pred)
            IN  IF preds = {} THEN g = NaN
                ELSE IF ~IsNum(cur) \/ ~IsNum(base) THEN g = NaN
                ELSE IF base.v = 0 THEN g.k # "pct"
                ELSE g.k = "pct" /\ SamePct(g, Pct(cur.v, base.v))

(***************************************************************************)
(* The What If development: one 2024-2025 record of every focus category,  *)
(* and the user at the sliders.                                            *)
(***************************************************************************)
WhatIfCsv(defence) ==
    << Text(RawDefence, Y2425 \o BudgetEstimate, NotAvailable, defence),
       Text(RawFinance, Y2425 \o BudgetEstimate, NotAvailable, Text5000000),
       Text(RawHome, Y2425 \o BudgetEstimate, NotAvailable, Text5000000),
       Text(RawAgri, Y2425 \o BudgetEstimate, Text5000000, NotAvailable),
       Text(RawHealth, Y2425 \o BudgetEstimate, NotAvailable, Text5000000) >>

InitWhatIf ==
    /\ csv \in {WhatIfCsv(defence) : defence \in {Text55000000, Text60000000}}
    /\ NotRun
    /\ NoCanon

NextWhatIf ==
    \/ Overview
    \/ WhatIf
    \/ \E ministry \in FocusSet : MoveSlider(ministry)

SpecWhatIf == InitWhatIf /\ [][NextWhatIf]_vars

\* the proposal on display: the sum of the five allocations, and its delta
\* from the 2024-2025 total of the focus records
Proposed == SumOver(out.allocations, FocusSet)
Delta == TotalOver(loaded[1], FocusAt(loaded[1], Y2425)) - Proposed

\* C1: the proposal is reported balanced exactly when |delta| < 5 Lakh Cr:
\* balanced below 5, not balanced at 5 and above.
C1_BalancedIffWithinFive ==
    (out.page = "What If?" /\ out.status = "ok") =>
        /\ (Delta < 5 * LakhCrore /\ Delta > -5 * LakhCrore) => out.balanced
        /\ (Delta >= 5 * LakhCrore \/ Delta <= -5 * LakhCrore) => ~out.balanced

\* a proposal exactly 5 Lakh Cr short of the total was reported not balanced
C1_Witness ==
    /\ out.page = "What If?" /\ out.status = "ok"
    /\ sliders # <<>>
    /\ Delta = 5 * LakhCrore
    /\ ~out.balanced

(***************************************************************************)
(* The canonicalisation development: a raw label, canonicalised once and   *)
(* then once more.                                                         *)
(***************************************************************************)
LabelWords == {"MINISTRY", "OF", "DEFENCE", "Defence", "RAILWAYS"}

RawLabels ==
    UNION {[1..n -> LabelWords] : n \in 0..MaxLabelLen} \cup AliasKeys \cup FocusSet

NoPipeline ==
    /\ csv = <<>>
    /\ NotRun

InitCanon ==
    /\ rawLabel \in RawLabels
    /\ canonOnce = <<>>
    /\ canonTwice = <<>>
    /\ NoPipeline

Canonicalize ==
    /\ canonOnce = <<>>
    /\ canonOnce' = <<canonicalize(rawLabel)>>
    /\ UNCHANGED <<rawLabel, canonTwice, pipelineVars>>

Recanonicalize ==
    /\ canonOnce # <<>>
    /\ canonTwice = <<>>
    /\ canonTwice' = <<canonicalize(canonOnce[1])>>
    /\ UNCHANGED <<rawLabel, canonOnce, pipelineVars>>

NextCanon == Canonicalize \/ Recanonicalize

SpecCanon == InitCanon /\ [][NextCanon]_vars

\* C7 as claimed: canonicalisation is idempotent for every raw label, and every
\* canonical name of the focus set maps to itself.
C7_IdempotentAll ==
    /\ canonTwice # <<>> => canonTwice = canonOnce
    /\ (canonOnce # <<>> /\ rawLabel \in FocusSet) => canonOnce[1] = rawLabel

\* C7 amended: for every raw label whose canonical form holds no occurrence of
\* the literal "MINISTRY OF ", canonicalising the canonical form again returns
\* it unchanged; every canonical name of the focus set maps to itself.
C7_IdempotentWhenLiteralFree ==
    /\ (canonTwice # <<>> /\ ~ContainsLiteral(canonOnce[1])) => canonTwice = canonOnce
    /\ (canonOnce # <<>> /\ rawLabel \in FocusSet) => canonOnce[1] = rawLabel

\* an alias spelling was canonicalised twice and landed on its focus name
C7_Witness ==
    /\ rawLabel = <<"MINISTRY", "OF", "DEFENCE">>
    /\ canonOnce = <<DefenceName>>
    /\ canonTwice = <<DefenceName>>

====
